---- MODULE Spec2Model ----
(***************************************************************************)
(* Nodal price pipeline: Normalizer (etl.py), Quality Profiler (clean.py), *)
(* Sanity Checker (sanity.py) and Validator (validate.py).                 *)
(*                                                                         *)
(* A data frame is a sequence of records; every row carries the pandas     *)
(* index label it was read with (idx), which to_parquet(index=False)       *)
(* drops.  A nullable number is <<>> (NaN / NA) or <<v>>.  A null nodo is  *)
(* the marker NoNodo.  A file is [kind, body]: absent, old (whatever an    *)
(* earlier run left), partial (a write that did not finish) or new.        *)
(***************************************************************************)
EXTENDS Integers, Sequences, FiniteSets, TLC

VARIABLES stage, input, pc, work, files, files0

vars == <<stage, input, pc, work, files, files0>>

\* ---------------------------------------------------------------- bounds
MaxRows == 3

\* ---------------------------------------------------------------- values
NaN == <<>>
Num(v) == <<v>>
isna(x) == x = NaN
NoNodo == "<NA>"
\* node identifiers, in the order pandas sorts them
Nodos == <<"A", "B">>
NodoSet == {Nodos[i] : i \in 1..Len(Nodos)}

Absent == [kind |-> "absent", body |-> <<>>]
Old == [kind |-> "old", body |-> <<>>]
Partial == [kind |-> "partial", body |-> <<>>]
NewFile(b) == [kind |-> "new", body |-> b]

Range(s) == {s[i] : i \in 1..Len(s)}
SeqsUpTo(S, n) == UNION {[1..k -> S] : k \in 0..n}
SetMin(S) == CHOOSE x \in S : \A y \in S : x <= y
SetMax(S) == CHOOSE x \in S : \A y \in S : x >= y
Injective(p) == \A i, j \in DOMAIN p : p[i] = p[j] => i = j
Perms(n) == {p \in [1..n -> 1..n] : Injective(p)}
\* a data frame as read from a parquet written with index=False: RangeIndex
WithIndex(rows) == [i \in 1..Len(rows) |-> [idx |-> i, datetime |-> rows[i].datetime, nodo |-> rows[i].nodo, precio |-> rows[i].precio]]
DropIndex(df) == [i \in 1..Len(df) |-> [datetime |-> df[i].datetime, nodo |-> df[i].nodo, precio |-> df[i].precio]]
Reorder(df, p) == [k \in 1..Len(df) |-> df[p[k]]]

\* ------------------------------------------------- Quality Profiler: clean
CleanTimes == {1, 2}
CleanPrecios == {NaN, Num(10), Num(20)}
CleanRows == [datetime : CleanTimes, nodo : NodoSet \cup {NoNodo}, precio : CleanPrecios]
CleanInputs == SeqsUpTo(CleanRows, MaxRows)

\* df.sort_values("datetime"): kind defaults to quicksort, which is not a
\* stable sort; rows with equal datetime may come out in any order
SortByDatetime(df) == {Reorder(df, p) : p \in {q \in Perms(Len(df)) : \A i, j \in 1..Len(df) : i < j => df[q[i]].datetime <= df[q[j]].datetime}}

SameKey(a, b) == a.datetime = b.datetime /\ a.nodo = b.nodo
\* df.drop_duplicates(subset=["datetime", "nodo"], keep="last")
DropDuplicatesKeepLast(df) == SelectSeq([k \in 1..Len(df) |-> [row |-> df[k], keep |-> ~\E j \in (k+1)..Len(df) : SameKey(df[j], df[k])]], LAMBDA e : e.keep)

KeptRows(df) == [k \in 1..Len(DropDuplicatesKeepLast(df)) |-> DropDuplicatesKeepLast(df)[k].row]

\* low coverage only above 90
NodeFlagsStrict(n, n_nan) == [nan_pct |-> <<100 * n_nan, n>>, is_dead |-> (100 * n_nan = 100 * n), is_low_coverage |-> (100 * n_nan > 90 * n)]

\* stats["is_dead"], stats["is_low_coverage"] from nan_pct = (n_nan / n) * 100.0
\* (the float64 quotient compares with 90.0 and 100.0 as the exact one does)
NodeFlags(n, n_nan) == [nan_pct |-> <<100 * n_nan, n>>, is_dead |-> (100 * n_nan = 100 * n), is_low_coverage |-> (100 * n_nan >= 90 * n)]

GroupPrecios(df, nodo) == SelectSeq(df, LAMBDA r : r.nodo = nodo)
NonNull(g) == {g[i].precio[1] : i \in {j \in 1..Len(g) : ~isna(g[j].precio)}}
NanCount(g) == Cardinality({i \in 1..Len(g) : isna(g[i].precio)})
AggMin(g) == IF NonNull(g) = {} THEN NaN ELSE Num(SetMin(NonNull(g)))
AggMax(g) == IF NonNull(g) = {} THEN NaN ELSE Num(SetMax(NonNull(g)))

\* df.groupby("nodo")["precio"].agg(...).reset_index(): dropna defaults to
\* True, so rows whose nodo is null belong to no group
QualityGroupKeys(df) == SelectSeq(Nodos, LAMBDA x : \E i \in 1..Len(df) : df[i].nodo = x)

QualityRow(df, nodo) == [nodo |-> nodo, n |-> Len(GroupPrecios(df, nodo)), n_nan |-> NanCount(GroupPrecios(df, nodo)), min |-> AggMin(GroupPrecios(df, nodo)), max |-> AggMax(GroupPrecios(df, nodo)), flags |-> NodeFlags(Len(GroupPrecios(df, nodo)), NanCount(GroupPrecios(df, nodo)))]

NodeQualityStats(df) == [k \in 1..Len(QualityGroupKeys(df)) |-> QualityRow(df, QualityGroupKeys(df)[k])]

CleanArtifacts == {"clean", "node_quality"}

\* the output directory before the run: holding an earlier run's files, or empty
EarlierRun(arts) == [a \in arts |-> Old]
FilesBefore(arts) == {[a \in arts |-> Absent], EarlierRun(arts)}

InitClean ==
    /\ stage = "clean"
    /\ input \in CleanInputs
    /\ pc = "start"
    /\ work = <<>>
    /\ files = EarlierRun(CleanArtifacts)
    /\ files0 = files

\* the frame and the stats clean holds when it reaches line 33
CleanFrames(rows) == {[df |-> KeptRows(sorted), stats |-> NodeQualityStats(KeptRows(sorted))] : sorted \in SortByDatetime(WithIndex(rows))}

\* clean.py lines 8-35: read, sort, drop duplicates, profile, then
\* df.to_parquet(output_parquet, index=False)
CleanWriteData ==
    /\ stage = "clean"
    /\ pc = "start"
    /\ \E w \in CleanFrames(input) :
         /\ work' = w
         /\ files' = [files EXCEPT !["clean"] = NewFile(DropIndex(w.df))]
    /\ pc' = "wrote_data"
    /\ UNCHANGED <<stage, input, files0>>

\* clean.py lines 38-39: stats.to_parquet(stats_path, index=False)
CleanWriteStats ==
    /\ stage = "clean"
    /\ pc = "wrote_data"
    /\ files' = [files EXCEPT !["node_quality"] = NewFile(work.stats)]
    /\ pc' = "done"
    /\ UNCHANGED <<stage, input, work, files0>>

\* to_parquet opens the target path itself and raises on an I/O error: the
\* file it was writing is left as it was (the open failed) or truncated
FailedWrite(a) == \E f \in {files[a], Partial} : files' = [files EXCEPT ![a] = f]

CleanWriteDataFails ==
    /\ stage = "clean"
    /\ pc = "start"
    /\ FailedWrite("clean")
    /\ pc' = "failed"
    /\ UNCHANGED <<stage, input, work, files0>>

CleanWriteStatsFails ==
    /\ stage = "clean"
    /\ pc = "wrote_data"
    /\ FailedWrite("node_quality")
    /\ pc' = "failed"
    /\ UNCHANGED <<stage, input, work, files0>>

NextClean == CleanWriteData \/ CleanWriteStats \/ CleanWriteDataFails \/ CleanWriteStatsFails

SpecClean == InitClean /\ [][NextClean]_vars

\* ------------------------------------------------ claims: Quality Profiler
Keys(rows) == {<<rows[i].datetime, rows[i].nodo>> : i \in 1..Len(rows)}
LastOccurrence(rows, key) == SetMax({i \in 1..Len(rows) : <<rows[i].datetime, rows[i].nodo>> = key})
OnePerKey(df, rows) == /\ Keys(df) = Keys(rows)
                       /\ \A i, j \in 1..Len(df) : SameKey(df[i], df[j]) => i = j

\* C1: the cleaned dataset holds exactly one record per (datetime, nodo) key
\* of the input, and the record kept for a key is the one that comes last in
\* the input's original row order.
C1_KeepsLastOfOriginalOrder ==
    pc \in {"wrote_data", "done"} =>
        /\ OnePerKey(files["clean"].body, input)
        /\ \A k \in 1..Len(files["clean"].body) : files["clean"].body[k] = input[LastOccurrence(input, <<files["clean"].body[k].datetime, files["clean"].body[k].nodo>>)]

NodoValues(rows) == {rows[i].nodo : i \in 1..Len(rows)}

\* C2: the nodo values of the node_quality sidecar are the nodo values of the
\* cleaned dataset and of the input, a null nodo included.
C2_StatsCoverEveryNodo ==
    pc = "done" =>
        /\ NodoValues(files["node_quality"].body) = NodoValues(files["clean"].body)
        /\ NodoValues(files["clean"].body) = NodoValues(input)

\* ------------------------------------------- coverage flags of one node
MaxN == 20

\* a node of n rows, n_nan of them with a null precio
InitCoverage ==
    /\ stage = "coverage"
    /\ input \in {[n |-> n, n_nan |-> k] : n \in 1..MaxN, k \in 0..MaxN} \cap {c \in [n : 1..MaxN, n_nan : 0..MaxN] : c.n_nan <= c.n}
    /\ pc = "start"
    /\ work = <<>>
    /\ files = [a \in CleanArtifacts |-> Absent]
    /\ files0 = files

\* clean.py lines 27-31 on that node's row of stats
ProfileNode ==
    /\ stage = "coverage"
    /\ pc = "start"
    /\ work' = NodeFlags(input.n, input.n_nan)
    /\ pc' = "profiled"
    /\ UNCHANGED <<stage, input, files, files0>>

SpecCoverage == InitCoverage /\ [][ProfileNode]_vars

\* C4: a node is low coverage exactly when at least 90% of its rows are
\* null (at most a tenth of them carry a price), dead exactly when all of
\* them are, and every dead node is low coverage.
C4_CoverageFlags ==
    pc = "profiled" =>
        /\ work.is_low_coverage <=> 10 * (input.n - input.n_nan) <= input.n
        /\ work.is_dead <=> input.n_nan = input.n
        /\ work.is_dead => work.is_low_coverage

\* a node exactly at 90% is flagged low coverage and is not dead
C4_Witness == pc = "profiled" /\ input.n = 10 /\ input.n_nan = 9 /\ work.is_low_coverage /\ ~work.is_dead

\* --------------------------------------------------- Sanity Checker: sanity
SanityTimes == {1, 2, 3}
SanityPrecios == {NaN, Num(-5), Num(10), Num(400)}
SanityRows == [datetime : SanityTimes, nodo : NodoSet, precio : SanityPrecios]
\* the cleaned tidy dataset: one row per (datetime, nodo), in any row order
SanityInputs == {rows \in SeqsUpTo(SanityRows, MaxRows) : \A i, j \in 1..Len(rows) : SameKey(rows[i], rows[j]) => i = j}

\* sanity.py line 11: neg = df["precio"] < 0, a Series on df's index
NegPrice(df) == [i \in 1..Len(df) |-> ~isna(df[i].precio) /\ df[i].precio[1] < 0]

InsertSorted(x, s) == SubSeq(s, 1, Cardinality({i \in 1..Len(s) : s[i] <= x})) \o <<x>> \o SubSeq(s, Cardinality({i \in 1..Len(s) : s[i] <= x}) + 1, Len(s))
RECURSIVE SortInts(_)
SortInts(s) == IF s = <<>> THEN <<>> ELSE InsertSorted(Head(s), SortInts(Tail(s)))

\* Series.quantile(0.999), linear interpolation, of the sorted non-null values
\* x: 1000 times x[lo] + (h - lo) * (x[lo + 1] - x[lo]) with h = 0.999 * (n - 1)
\* and lo = floor(h), indices from 0; NaN when there is no value
QuantileX1000(x) ==
    IF x = <<>> THEN NaN
    ELSE LET h1000 == 999 * (Len(x) - 1)
             lo == h1000 \div 1000
             frac1000 == h1000 - 1000 * lo
         IN  Num(1000 * x[lo + 1] + (IF frac1000 = 0 THEN 0 ELSE frac1000 * (x[lo + 2] - x[lo + 1])))

PreciosOf(df) == [k \in 1..Len(SelectSeq(df, LAMBDA r : ~isna(r.precio))) |-> SelectSeq(df, LAMBDA r : ~isna(r.precio))[k].precio[1]]

\* one percentile over all nodes
P999Global(df) == [x \in {df[i].nodo : i \in 1..Len(df)} \ {NoNodo} |-> QuantileX1000(SortInts(PreciosOf(df)))]

\* sanity.py lines 14-19: df.groupby("nodo")["precio"].quantile(0.999), one
\* p999 per node
P999(df) == [x \in {df[i].nodo : i \in 1..Len(df)} \ {NoNodo} |-> QuantileX1000(SortInts(PreciosOf(SelectSeq(df, LAMBDA r : r.nodo = x))))]

\* sanity.py lines 20-21: the left merge keeps the rows and their order and
\* numbers them anew; hard_outlier = df["precio"] > df["p999"]
HardOutlier(df) ==
    LET q == P999(df)
    IN  [i \in 1..Len(df) |-> /\ ~isna(df[i].precio)
                              /\ df[i].nodo \in DOMAIN q
                              /\ ~isna(q[df[i].nodo])
                              /\ 1000 * df[i].precio[1] > q[df[i].nodo][1]]

NodoRank(x) == IF x = NoNodo THEN Len(Nodos) + 1 ELSE CHOOSE k \in 1..Len(Nodos) : Nodos[k] = x
RowBefore(df, i, j) ==
    \/ NodoRank(df[i].nodo) < NodoRank(df[j].nodo)
    \/ NodoRank(df[i].nodo) = NodoRank(df[j].nodo) /\ df[i].datetime < df[j].datetime
    \/ NodoRank(df[i].nodo) = NodoRank(df[j].nodo) /\ df[i].datetime = df[j].datetime /\ i < j

\* sanity.py line 24: df.sort_values(["nodo", "datetime"]), a stable
\* lexicographic sort with null keys last; the rows keep their index labels
SortByNodoDatetime(df) == [k \in 1..Len(df) |-> df[CHOOSE i \in 1..Len(df) : Cardinality({j \in 1..Len(df) : RowBefore(df, j, i)}) = k - 1]]

AbsDiff(a, b) == IF a >= b THEN a - b ELSE b - a
\* the row above, whatever its node
PrevInFrame(df, k) == {j \in 1..(k - 1) : j = k - 1}

PrevInGroup(df, k) == {j \in 1..(k - 1) : df[j].nodo = df[k].nodo}

\* the difference taken from the latest priced row of the group, null rows
\* skipped
DeltaOverNulls(df) == [k \in 1..Len(df) |->
    LET priced == {j \in PrevInGroup(df, k) : ~isna(df[j].precio)}
    IN  IF df[k].nodo = NoNodo \/ isna(df[k].precio) \/ priced = {} THEN NaN
        ELSE Num(AbsDiff(df[k].precio[1], df[SetMax(priced)].precio[1]))]

\* sanity.py line 25: df.groupby("nodo")["precio"].diff().abs(), by position
\* in the sorted frame; NaN on a group's first row, on a null operand and on
\* rows of no group
Delta(df) == [k \in 1..Len(df) |->
    IF df[k].nodo = NoNodo \/ PrevInGroup(df, k) = {} THEN NaN
    ELSE IF isna(df[k].precio) \/ isna(df[SetMax(PrevInGroup(df, k))].precio) THEN NaN
    ELSE Num(AbsDiff(df[k].precio[1], df[SetMax(PrevInGroup(df, k))].precio[1]))]

SpikeThreshold == 300

\* sanity.py line 26: spike = df["delta"] > 300
Spike(df) == LET delta == Delta(df) IN [k \in 1..Len(df) |-> ~isna(delta[k]) /\ delta[k][1] > SpikeThreshold]

\* joined by position instead of by label
AlignByPosition(series, sorted) == [k \in 1..Len(sorted) |-> series[k]]

\* pandas aligns a Series to a frame on the index labels, not on position
Align(series, sorted) == [k \in 1..Len(sorted) |-> series[sorted[k].idx]]

\* sanity.py lines 29-36: the three Series are joined to the sorted frame on
\* the index labels
FlagsFrame(rows) ==
    LET df == WithIndex(rows)
        sorted == SortByNodoDatetime(df)
        neg == Align(NegPrice(df), sorted)
        hard == Align(HardOutlier(df), sorted)
        spike == Spike(sorted)
    IN  [k \in 1..Len(sorted) |-> [idx |-> sorted[k].idx, datetime |-> sorted[k].datetime, nodo |-> sorted[k].nodo, precio |-> sorted[k].precio,
                                   neg_price |-> neg[k], hard_outlier |-> hard[k], hourly_spike |-> spike[k]]]

DropFlagsIndex(df) == [k \in 1..Len(df) |-> [datetime |-> df[k].datetime, nodo |-> df[k].nodo, precio |-> df[k].precio, neg_price |-> df[k].neg_price, hard_outlier |-> df[k].hard_outlier, hourly_spike |-> df[k].hourly_spike]]

SanityArtifacts == {"flags"}

InitSanity ==
    /\ stage = "sanity"
    /\ input \in SanityInputs
    /\ pc = "start"
    /\ work = <<>>
    /\ files = EarlierRun(SanityArtifacts)
    /\ files0 = files

\* sanity.py lines 8-46: compute the flags, df_flags.to_parquet(output_flags, index=False)
SanityRun ==
    /\ stage = "sanity"
    /\ pc = "start"
    /\ \E w \in {FlagsFrame(input)} :
         /\ work' = w
         /\ files' = [files EXCEPT !["flags"] = NewFile(DropFlagsIndex(w))]
    /\ pc' = "done"
    /\ UNCHANGED <<stage, input, files0>>

SanityWriteFails ==
    /\ stage = "sanity"
    /\ pc = "start"
    /\ FailedWrite("flags")
    /\ pc' = "failed"
    /\ UNCHANGED <<stage, input, work, files0>>

NextSanity == SanityRun \/ SanityWriteFails

SpecSanity == InitSanity /\ [][NextSanity]_vars

\* ------------------------------------------------------ Normalizer: run_etl
MaxWideRows == 2

Sp == " "
\* "2024-01-01", "00:00:00", "1900-01-01", "03:00:00", "04:00:00"
Date1 == <<"2", "0", "2", "4", "-", "0", "1", "-", "0", "1">>
Midnight == <<"0", "0", ":", "0", "0", ":", "0", "0">>
Date1900 == <<"1", "9", "0", "0", "-", "0", "1", "-", "0", "1">>
Time03 == <<"0", "3", ":", "0", "0", ":", "0", "0">>
Time04 == <<"0", "4", ":", "0", "0", ":", "0", "0">>
\* a cell of text is <<text>>, a null cell is NaN
Text(chars) == <<chars>>

FirstSpace(s) == LET spaces == {i \in 1..Len(s) : s[i] = Sp} IN IF spaces = {} THEN 0 ELSE SetMin(spaces)
\* str.split(" "): the fields between single spaces
RECURSIVE Split(_)
Split(s) == LET k == FirstSpace(s) IN IF k = 0 THEN <<s>> ELSE <<SubSeq(s, 1, k - 1)>> \o Split(SubSeq(s, k + 1, Len(s)))

\* etl.py lines 7-10
normalize_fecha(fecha) == IF isna(fecha) THEN NaN ELSE Text(Split(fecha[1])[1])

\* etl.py lines 13-21
normalize_hora(hora) ==
    IF isna(hora) THEN NaN
    ELSE LET s == IF FirstSpace(hora[1]) # 0 THEN Split(hora[1])[2] ELSE hora[1]
         IN  Text(SubSeq(s, 1, IF Len(s) < 5 THEN Len(s) ELSE 5))

\* etl.py line 35: fecha_str + " " + hora_str, null where either is null
DtStr(f, h) == IF isna(f) \/ isna(h) THEN NaN ELSE Text(f[1] \o <<Sp>> \o h[1])

\* etl.py line 36: pd.to_datetime(dt_str, errors="coerce"); the texts of this
\* model that denote a timestamp, as the hour they denote, and NaT otherwise
ToDatetime(t) ==
    IF isna(t) THEN NaN
    ELSE IF t[1] = Date1 \o <<Sp>> \o SubSeq(Time03, 1, 5) THEN Num(3)
    ELSE IF t[1] = Date1 \o <<Sp>> \o SubSeq(Time04, 1, 5) THEN Num(4)
    ELSE NaN

RowDatetime(r) == ToDatetime(DtStr(normalize_fecha(r.Fecha), normalize_hora(r.Hora)))

\* a node cell: blank, a number, or a text that is no number
Blank == [t |-> "blank", v |-> NaN]
Number(x) == [t |-> "num", v |-> Num(x)]
NotANumber == [t |-> "text", v |-> NaN]
Cells == {Blank, Number(0), Number(5), NotANumber}
FechaCells == {NaN, Text(Date1 \o <<Sp>> \o Midnight), Text(<<"x">>)}
HoraCells == {NaN, Text(Date1900 \o <<Sp>> \o Time03), Text(Time04)}
\* a row of the sheet under the node columns Nodos; the run stops at line 41
\* before it reads a node column, and a row whose date and time give no
\* timestamp holds the cells 5 and blank
WideRows == {r \in [Fecha : FechaCells, Hora : HoraCells, cells : [1..Len(Nodos) -> Cells]] : isna(RowDatetime(r)) => r.cells = <<Number(5), Blank>>}
Headers == {"Fecha", "Hora"}
EtlInputs == {[columns |-> Headers, rows |-> rows] : rows \in SeqsUpTo(WideRows, MaxWideRows)}
                 \cup {[columns |-> c, rows |-> rows] : c \in (SUBSET Headers) \ {Headers}, rows \in SeqsUpTo(WideRows, 1)}

\* etl.py line 52: pd.to_numeric(tidy["precio"], errors="coerce")
ToNumeric(cell) == IF cell.t = "num" THEN cell.v ELSE NaN

\* left as it is
KeepZero(x) == x

\* etl.py line 53: tidy.loc[tidy["precio"] == 0, "precio"] = pd.NA
ZeroToNull(x) == IF x = Num(0) THEN NaN ELSE x

\* etl.py lines 43-53: melt puts the node columns one after the other, each
\* with every row of the sheet
Melt(rows) ==
    LET dt == [r \in 1..Len(rows) |-> RowDatetime(rows[r])[1]]
    IN  [k \in 1..(Len(Nodos) * Len(rows)) |->
            LET c == ((k - 1) \div Len(rows)) + 1
                r == ((k - 1) % Len(rows)) + 1
            IN  [datetime |-> dt[r], nodo |-> Nodos[c], precio |-> ZeroToNull(ToNumeric(rows[r].cells[c]))]]

SchemaOk(sheet) == "Fecha" \in sheet.columns /\ "Hora" \in sheet.columns
DatetimesOk(sheet) == \A i \in 1..Len(sheet.rows) : ~isna(RowDatetime(sheet.rows[i]))

EtlArtifacts == {"tidy"}

InitEtl ==
    /\ stage = "etl"
    /\ input \in EtlInputs
    /\ pc = "start"
    /\ work = <<>>
    /\ files \in FilesBefore(EtlArtifacts)
    /\ files0 = files

\* etl.py lines 28-29: raise ValueError("Faltan columnas Fecha/Hora")
EtlSchemaError ==
    /\ stage = "etl"
    /\ pc = "start"
    /\ ~SchemaOk(input)
    /\ pc' = "error"
    /\ UNCHANGED <<stage, input, work, files, files0>>

\* etl.py lines 38-41: raise ValueError("No se pudo construir datetime")
EtlDataError ==
    /\ stage = "etl"
    /\ pc = "start"
    /\ SchemaOk(input)
    /\ ~DatetimesOk(input)
    /\ pc' = "error"
    /\ UNCHANGED <<stage, input, work, files, files0>>

\* etl.py lines 25-56, to the end: tidy.to_parquet(output_path, index=False)
EtlRun ==
    /\ stage = "etl"
    /\ pc = "start"
    /\ SchemaOk(input)
    /\ DatetimesOk(input)
    /\ \E tidy \in {Melt(input.rows)} :
         /\ work' = tidy
         /\ files' = [files EXCEPT !["tidy"] = NewFile(tidy)]
    /\ pc' = "done"
    /\ UNCHANGED <<stage, input, files0>>

EtlWriteFails ==
    /\ stage = "etl"
    /\ pc = "start"
    /\ SchemaOk(input)
    /\ DatetimesOk(input)
    /\ FailedWrite("tidy")
    /\ pc' = "failed"
    /\ UNCHANGED <<stage, input, work, files0>>

NextEtl == EtlSchemaError \/ EtlDataError \/ EtlRun \/ EtlWriteFails

SpecEtl == InitEtl /\ [][NextEtl]_vars

\* ------------------------------------------------------- Validator: validate
Required == {"datetime", "nodo", "precio"}
\* a datetime cell that pd.to_datetime(errors="coerce") turns into NaT is NaN
ValidateRows == [datetime : {NaN, Num(1)}, nodo : {"A", NoNodo}, precio : {NaN, Num(0), Num(10)}]
\* the file at parquet_path: missing, short of a required column, or tidy-shaped
ValidateInputs == {[exists |-> TRUE, columns |-> Required, rows |-> rows] : rows \in SeqsUpTo(ValidateRows, MaxRows)}
                      \cup {[exists |-> TRUE, columns |-> c, rows |-> rows] : c \in (SUBSET Required) \ {Required}, rows \in SeqsUpTo(ValidateRows, 1)}
                      \cup {[exists |-> FALSE, columns |-> {}, rows |-> <<>>]}

\* validate.py line 29: df.groupby("nodo", dropna=False), the null key last
StatsGroupKeys(df) == SelectSeq(Nodos \o <<NoNodo>>, LAMBDA x : \E i \in 1..Len(df) : df[i].nodo = x)
ZeroCount(g) == Cardinality({i \in 1..Len(g) : g[i].precio = Num(0)})

\* validate.py lines 30-37
NodeStatsRow(df, nodo) ==
    LET g == GroupPrecios(df, nodo)
    IN  [nodo |-> nodo, n |-> Len(g), n_nan |-> NanCount(g), n_zero |-> ZeroCount(g), min |-> AggMin(g), max |-> AggMax(g), nan_pct |-> <<100 * NanCount(g), Len(g)>>]

NodeStats(df) == [k \in 1..Len(StatsGroupKeys(df)) |-> NodeStatsRow(df, StatsGroupKeys(df)[k])]

\* only the datetime column is asked for
ColumnsOkDatetimeOnly(f) == "datetime" \in f.columns

\* validate.py lines 13-15: required - set(df.columns) is empty
ColumnsOk(f) == Required \subseteq f.columns
ParseOk(f) == \A i \in 1..Len(f.rows) : ~isna(f.rows[i].datetime)
\* validate.py lines 45-48: nan_pct_total = (nan_total / n_rows) * 100.0 on two
\* Python ints, ZeroDivisionError when the file has no row
SummaryOk(f) == Len(f.rows) # 0

ValidateArtifacts == {"node_stats"}

InitValidate ==
    /\ stage = "validate"
    /\ input \in ValidateInputs
    /\ pc = "start"
    /\ work = <<>>
    /\ files \in FilesBefore(ValidateArtifacts)
    /\ files0 = files

\* validate.py lines 8-9: raise FileNotFoundError(parquet_path)
ValidateNotFound ==
    /\ stage = "validate"
    /\ pc = "start"
    /\ ~input.exists
    /\ pc' = "error"
    /\ UNCHANGED <<stage, input, work, files, files0>>

\* validate.py lines 13-16: raise ValueError(f"Faltan columnas: ...")
ValidateSchemaError ==
    /\ stage = "validate"
    /\ pc = "start"
    /\ input.exists
    /\ ~ColumnsOk(input)
    /\ pc' = "error"
    /\ UNCHANGED <<stage, input, work, files, files0>>

\* validate.py lines 19-22: raise ValueError(f"Hay datetime invalidos. ...")
ValidateDataError ==
    /\ stage = "validate"
    /\ pc = "start"
    /\ input.exists
    /\ ColumnsOk(input)
    /\ ~ParseOk(input)
    /\ pc' = "error"
    /\ UNCHANGED <<stage, input, work, files, files0>>

\* validate.py line 48: the division raises before anything is written
ValidateDivisionError ==
    /\ stage = "validate"
    /\ pc = "start"
    /\ input.exists
    /\ ColumnsOk(input)
    /\ ParseOk(input)
    /\ ~SummaryOk(input)
    /\ pc' = "raised"
    /\ UNCHANGED <<stage, input, work, files, files0>>

\* validate.py lines 8-76, to the end:
\* node_stats.reset_index().to_parquet(out, index=False)
ValidateRun ==
    /\ stage = "validate"
    /\ pc = "start"
    /\ input.exists
    /\ ColumnsOk(input)
    /\ ParseOk(input)
    /\ SummaryOk(input)
    /\ \E node_stats \in {NodeStats(input.rows)} :
         /\ work' = node_stats
         /\ files' = [files EXCEPT !["node_stats"] = NewFile(node_stats)]
    /\ pc' = "done"
    /\ UNCHANGED <<stage, input, files0>>

ValidateWriteFails ==
    /\ stage = "validate"
    /\ pc = "start"
    /\ input.exists
    /\ ColumnsOk(input)
    /\ ParseOk(input)
    /\ SummaryOk(input)
    /\ FailedWrite("node_stats")
    /\ pc' = "failed"
    /\ UNCHANGED <<stage, input, work, files0>>

NextValidate == ValidateNotFound \/ ValidateSchemaError \/ ValidateDataError \/ ValidateDivisionError \/ ValidateRun \/ ValidateWriteFails

SpecValidate == InitValidate /\ [][NextValidate]_vars

\* the two stages that stop on a structural error
SpecStructural == (InitEtl \/ InitValidate) /\ [][NextEtl \/ NextValidate]_vars

\* ------------------------------ Validator run again on a path of a directory
\* the directory of the input artifact holds the input and, once written, the
\* NodeStats file; files maps a file name of that directory to its content
MaxRuns == 2
TidyName == "precios_nodales.parquet"
StatsName == "node_stats.parquet"
FileNames == {TidyName, StatsName}

\* validate.py line 75: out = parquet_path.parent / "node_stats.parquet"
OutPath(parquet_path) == StatsName

\* validate.py lines 30-37 and 76: the columns of node_stats.reset_index()
StatsColumns == {"nodo", "n", "n_nan", "n_zero", "min", "max", "nan_pct"}
StatsFile(node_stats) == [exists |-> TRUE, columns |-> StatsColumns, rows |-> node_stats]
NoFile == [exists |-> FALSE, columns |-> {}, rows |-> <<>>]

\* artifacts with the tidy schema
TidyFiles == {f \in ValidateInputs : f.exists /\ f.columns = Required}

\* validate.py lines 8-48: how a run on the file content f ends
Outcome(f) ==
    IF ~f.exists \/ ~ColumnsOk(f) \/ ~ParseOk(f) THEN "error"
    ELSE IF ~SummaryOk(f) THEN "raised"
    ELSE "done"

InitRerun ==
    /\ stage = "rerun"
    /\ input \in [path : FileNames]
    /\ pc = "start"
    /\ work = <<>>
    /\ \E f \in TidyFiles : files = [x \in FileNames |-> IF x = input.path THEN f ELSE NoFile]
    /\ files0 = files

\* validate.py lines 8-48: a run that raises, nothing is written
ValidatePathRaises ==
    /\ stage = "rerun"
    /\ Len(work) < MaxRuns
    /\ Outcome(files[input.path]) # "done"
    /\ work' = Append(work, [result |-> Outcome(files[input.path]), node_stats |-> <<>>])
    /\ pc' = "ran"
    /\ UNCHANGED <<stage, input, files, files0>>

\* validate.py lines 8-76: a run that reads parquet_path and writes out
ValidatePathRun ==
    /\ stage = "rerun"
    /\ Len(work) < MaxRuns
    /\ Outcome(files[input.path]) = "done"
    /\ \E node_stats \in {NodeStats(files[input.path].rows)} :
         /\ work' = Append(work, [result |-> "done", node_stats |-> node_stats])
         /\ files' = [files EXCEPT ![OutPath(input.path)] = StatsFile(node_stats)]
    /\ pc' = "ran"
    /\ UNCHANGED <<stage, input, files0>>

NextRerun == ValidatePathRaises \/ ValidatePathRun

SpecRerun == InitRerun /\ [][NextRerun]_vars

\* ------------------------------------------- pipeline run (01_Actualizar_Datos)
\* input.clicks counts the presses of the button and is the clock that
\* datetime.utcnow() reads; work.meta is the dict meta of the script run,
\* work.steps the subprocesses the run has started, each with its returncode;
\* files holds metadata.json, files0 what it held when the button was pressed
MaxClicks == 2
MetaName == "metadata.json"
StepNames == <<"ETL", "Limpieza", "Sanity checks">>

\* 01_Actualizar_Datos.py line 99: result.returncode, negative when a signal
\* ended the child
ReturnCodes == {0, 1, -9}

\* 01_Actualizar_Datos.py lines 33-37
DefaultMeta == [raw_file |-> "Costos_Marginales.xlsx", last_run |-> NaN, status |-> "never"]
MetaValues == {DefaultMeta, [DefaultMeta EXCEPT !.status = "error"], [DefaultMeta EXCEPT !.last_run = Num(0), !.status = "ok"], [DefaultMeta EXCEPT !.last_run = Num(0), !.status = "error"]}
MetaFiles == {[kind |-> "absent", body |-> DefaultMeta]} \cup {[kind |-> "json", body |-> m] : m \in MetaValues}

\* 01_Actualizar_Datos.py lines 32-48
load_meta(f) == IF f.kind = "absent" THEN DefaultMeta ELSE f.body
\* 01_Actualizar_Datos.py lines 51-52
save_meta(meta) == [x \in {MetaName} |-> [kind |-> "json", body |-> meta]]
\* 01_Actualizar_Datos.py line 154: datetime.utcnow().isoformat()
utcnow == Num(input.clicks)

InitPipeline ==
    /\ stage = "pipeline"
    /\ input \in [raw_exists : BOOLEAN, clicks : {0}]
    /\ pc = "idle"
    /\ files \in [{MetaName} -> MetaFiles]
    /\ work = [meta |-> load_meta(files[MetaName]), steps |-> <<>>]
    /\ files0 = files

\* 01_Actualizar_Datos.py lines 55 and 117-120: the script reruns, loads meta,
\* and st.stop() ends it when the raw workbook is missing
ClickWithoutRaw ==
    /\ stage = "pipeline"
    /\ pc = "idle"
    /\ input.clicks < MaxClicks
    /\ ~input.raw_exists
    /\ input' = [input EXCEPT !.clicks = @ + 1]
    /\ work' = [meta |-> load_meta(files[MetaName]), steps |-> <<>>]
    /\ files0' = files
    /\ UNCHANGED <<stage, pc, files>>

\* 01_Actualizar_Datos.py lines 55 and 117-124
ClickRun ==
    /\ stage = "pipeline"
    /\ pc = "idle"
    /\ input.clicks < MaxClicks
    /\ input.raw_exists
    /\ input' = [input EXCEPT !.clicks = @ + 1]
    /\ work' = [meta |-> load_meta(files[MetaName]), steps |-> <<>>]
    /\ files0' = files
    /\ pc' = StepNames[1]
    /\ UNCHANGED <<stage, files>>

\* the check of the return code is left out
FailedNever(returncode) == FALSE

\* 01_Actualizar_Datos.py line 105: result.returncode != 0
Failed(returncode) == returncode # 0

\* 01_Actualizar_Datos.py lines 97-114; after is where the try block goes on
run_step(name, after) ==
    /\ stage = "pipeline"
    /\ pc = name
    /\ \E returncode \in ReturnCodes :
         /\ work' = [work EXCEPT !.steps = Append(@, [name |-> name, returncode |-> returncode])]
         /\ pc' = IF Failed(returncode) THEN "except" ELSE after
    /\ UNCHANGED <<stage, input, files, files0>>

\* 01_Actualizar_Datos.py lines 126-133
RunEtl == run_step(StepNames[1], StepNames[2])
\* 01_Actualizar_Datos.py lines 135-142
RunClean == run_step(StepNames[2], StepNames[3])
\* 01_Actualizar_Datos.py lines 144-151
RunSanity == run_step(StepNames[3], "record")

\* 01_Actualizar_Datos.py lines 153-160
RecordOk ==
    /\ stage = "pipeline"
    /\ pc = "record"
    /\ \E meta \in {[work.meta EXCEPT !.last_run = utcnow, !.status = "ok"]} :
         /\ work' = [work EXCEPT !.meta = meta]
         /\ files' = save_meta(meta)
    /\ pc' = "idle"
    /\ UNCHANGED <<stage, input, files0>>

\* 01_Actualizar_Datos.py lines 162-166
RecordError ==
    /\ stage = "pipeline"
    /\ pc = "except"
    /\ \E meta \in {[work.meta EXCEPT !.status = "error"]} :
         /\ work' = [work EXCEPT !.meta = meta]
         /\ files' = save_meta(meta)
    /\ pc' = "idle"
    /\ UNCHANGED <<stage, input, files0>>

NextPipeline == ClickWithoutRaw \/ ClickRun \/ RunEtl \/ RunClean \/ RunSanity \/ RecordOk \/ RecordError

SpecPipeline == InitPipeline /\ [][NextPipeline]_vars

\* ------------------------------------- normalize_fecha and normalize_hora alone
\* the two functions applied to one non-null cell text of up to MaxLen characters
MaxLen == 7
Chars == {Sp, "0", ":"}
CellTexts == {Text(s) : s \in SeqsUpTo(Chars, MaxLen)}

InitNormalize ==
    /\ stage = "normalize"
    /\ input \in CellTexts
    /\ pc = "start"
    /\ work = <<>>
    /\ files = [a \in EtlArtifacts |-> Absent]
    /\ files0 = files

\* etl.py lines 32-33: df["Fecha"].apply(normalize_fecha) and
\* df["Hora"].apply(normalize_hora), on one cell
NormalizeCell ==
    /\ stage = "normalize"
    /\ pc = "start"
    /\ work' = [fecha_str |-> normalize_fecha(input), hora_str |-> normalize_hora(input)]
    /\ pc' = "done"
    /\ UNCHANGED <<stage, input, files, files0>>

SpecNormalize == InitNormalize /\ [][NormalizeCell]_vars

\* --------------------------------------------------- claims: Sanity Checker
Computed == pc = "done"
NodeRows(rows, i) == {j \in 1..Len(rows) : rows[j].nodo = rows[i].nodo}
\* the records of i's node that come before i in time
Earlier(rows, i) == {j \in NodeRows(rows, i) : rows[j].datetime < rows[i].datetime}
Preceding(rows, i) == CHOOSE j \in Earlier(rows, i) : \A m \in Earlier(rows, i) : rows[m].datetime <= rows[j].datetime
Jump(rows, i) ==
    /\ Earlier(rows, i) # {}
    /\ ~isna(rows[i].precio)
    /\ LET before == rows[Preceding(rows, i)].precio
       IN  ~isna(before) /\ AbsDiff(rows[i].precio[1], before[1]) > 300
Negative(rows, i) == ~isna(rows[i].precio) /\ 0 > rows[i].precio[1]
\* the only price of its node's prices that every other one lies below
StrictMaxOfNode(rows, i) ==
    /\ ~isna(rows[i].precio)
    /\ \E j \in NodeRows(rows, i) \ {i} : ~isna(rows[j].precio)
    /\ \A j \in NodeRows(rows, i) \ {i} : ~isna(rows[j].precio) => rows[j].precio[1] < rows[i].precio[1]
OwnNodeP999(rows, i) == QuantileX1000(SortInts(PreciosOf(SelectSeq(rows, LAMBDA r : r.nodo = rows[i].nodo))))
AboveOwnP999(rows, i) == ~isna(rows[i].precio) /\ LET q == OwnNodeP999(rows, i) IN ~isna(q) /\ 1000 * rows[i].precio[1] > q[1]

\* C3: the flags file has one record per input record, each with that
\* record's datetime, nodo and precio unchanged and with the three flags of
\* that same record.
C3_OneFlagRecordPerInputRecord ==
    Computed =>
        /\ Len(work) = Len(input)
        /\ \A i \in 1..Len(input) : \E k \in 1..Len(work) : work[k].idx = i
        /\ \A k \in 1..Len(work) :
             /\ work[k].datetime = input[work[k].idx].datetime
             /\ work[k].nodo = input[work[k].idx].nodo
             /\ work[k].precio = input[work[k].idx].precio
             /\ work[k].neg_price <=> Negative(input, work[k].idx)
             /\ work[k].hard_outlier <=> AboveOwnP999(input, work[k].idx)
             /\ work[k].hourly_spike <=> Jump(input, work[k].idx)
        /\ files["flags"] = NewFile(DropFlagsIndex(work))

\* the sort moved a negative record off its input position and the flag moved with it
C3_Witness ==
    /\ Computed
    /\ \E k \in 1..Len(work) : work[k].idx # k /\ work[k].neg_price /\ ~Negative(input, k)

\* C5: a record is flagged hourly_spike exactly when its node has a record
\* before it in time and its precio differs by more than 300 from the precio
\* of the latest such record.
C5_SpikeIsJumpWithinNode ==
    Computed => \A k \in 1..Len(work) : work[k].hourly_spike <=> Jump(input, work[k].idx)

\* the series 10, 10, 400 of one node gives false, false, true
C5_Witness ==
    /\ Computed
    /\ Len(work) = 3
    /\ \A k \in 1..3 : work[k].nodo = "A" /\ work[k].datetime = k
    /\ <<work[1].precio, work[2].precio, work[3].precio>> = <<Num(10), Num(10), Num(400)>>
    /\ <<work[1].hourly_spike, work[2].hourly_spike, work[3].hourly_spike>> = <<FALSE, FALSE, TRUE>>

\* C6: a record is flagged hard_outlier exactly when its precio is above the
\* 99.9th percentile of the prices of its own node, which (below 1001 prices)
\* is when it is the one highest price of at least two of that node.
C6_OutlierIsPerNode ==
    Computed => \A k \in 1..Len(work) :
        /\ work[k].hard_outlier <=> AboveOwnP999(input, work[k].idx)
        /\ work[k].hard_outlier <=> StrictMaxOfNode(input, work[k].idx)

\* A's highest price, 10, is flagged although it lies below every price of
\* B, and B's 400 is not flagged
C6_Witness ==
    /\ Computed
    /\ \E k \in 1..Len(work) :
         /\ work[k].nodo = "A" /\ work[k].precio = Num(10) /\ work[k].hard_outlier
         /\ \E j \in 1..Len(work) : work[j].nodo = "B" /\ ~isna(work[j].precio)
         /\ \A j \in 1..Len(work) : (work[j].nodo = "B" /\ ~isna(work[j].precio)) => work[j].precio[1] > 10 /\ ~work[j].hard_outlier

\* ------------------------------------------------------ claims: Normalizer
SheetCells(sheet) == {<<r, c>> : r \in 1..Len(sheet.rows), c \in 1..Len(Nodos)}
CellAt(sheet, rc) == sheet.rows[rc[1]].cells[rc[2]]
NonNullCells(sheet) == {rc \in SheetCells(sheet) : CellAt(sheet, rc).t # "blank"}
ZeroCells(sheet) == {rc \in SheetCells(sheet) : CellAt(sheet, rc) = Number(0)}
NonNumericCells(sheet) == {rc \in SheetCells(sheet) : CellAt(sheet, rc).t = "text"}
NonNullPrecios(tidy) == {k \in 1..Len(tidy) : ~isna(tidy[k].precio)}
\* the record of the tidy output that the cell rc became
RecordOf(sheet, tidy, rc) == tidy[(rc[2] - 1) * Len(sheet.rows) + rc[1]]
Normalized == stage = "etl" /\ pc = "done"

\* C7 as stated: the non-null precio values are as many as the non-null
\* cells less the cells that are exactly 0, no other cell becomes null and no
\* precio is 0.
C7_ReshapeConservation ==
    Normalized =>
        /\ Cardinality(NonNullPrecios(files["tidy"].body)) = Cardinality(NonNullCells(input)) - Cardinality(ZeroCells(input))
        /\ \A rc \in NonNullCells(input) \ ZeroCells(input) : ~isna(RecordOf(input, files["tidy"].body, rc).precio)
        /\ \A k \in 1..Len(files["tidy"].body) : files["tidy"].body[k].precio # Num(0)

\* C7, amended: the non-null precio values are as many as the non-null cells
\* less the cells that are exactly 0 and the cells that hold no number; every
\* other cell keeps its value under its row's timestamp and its column's
\* node, and no precio is 0.
C7_ReshapeConservationOfNumbers ==
    Normalized =>
        LET tidy == files["tidy"].body
            kept == NonNullCells(input) \ (ZeroCells(input) \cup NonNumericCells(input))
        IN  /\ Len(tidy) = Len(Nodos) * Len(input.rows)
            /\ Cardinality(NonNullPrecios(tidy)) = Cardinality(NonNullCells(input)) - Cardinality(ZeroCells(input)) - Cardinality(NonNumericCells(input))
            /\ \A rc \in SheetCells(input) :
                 /\ RecordOf(input, tidy, rc).nodo = Nodos[rc[2]]
                 /\ Num(RecordOf(input, tidy, rc).datetime) = RowDatetime(input.rows[rc[1]])
                 /\ RecordOf(input, tidy, rc).precio = (IF rc \in kept THEN CellAt(input, rc).v ELSE NaN)
            /\ \A k \in 1..Len(tidy) : tidy[k].precio # Num(0)

\* a sheet with a zero, a text, a blank and a price was normalized
C7_Witness ==
    /\ Normalized
    /\ ZeroCells(input) # {}
    /\ NonNumericCells(input) # {}
    /\ NonNullCells(input) # SheetCells(input)
    /\ NonNullPrecios(files["tidy"].body) # {}

\* ------------------------------------------- claims: fatal structural errors
EtlStructuralError ==
    /\ stage = "etl"
    /\ \/ "Fecha" \notin input.columns
       \/ "Hora" \notin input.columns
       \/ \E i \in 1..Len(input.rows) : isna(input.rows[i].Fecha) \/ isna(input.rows[i].Hora) \/ isna(RowDatetime(input.rows[i]))
ValidateStructuralError ==
    /\ stage = "validate"
    /\ input.exists
    /\ \/ \E c \in {"datetime", "nodo", "precio"} : c \notin input.columns
       \/ \E i \in 1..Len(input.rows) : isna(input.rows[i].datetime)

\* C8: on a structural error of its input the Normalizer, and the Validator,
\* ends with an error and writes nothing: every artifact is as it was before
\* the run.
C8_StructuralErrorWritesNothing ==
    (EtlStructuralError \/ ValidateStructuralError) => (pc \in {"start", "error"} /\ files = files0)

\* the Normalizer stopped on a sheet whose first row has a timestamp and whose
\* second row has a null Hora, and the earlier run's tidy file is in place
C8_Witness ==
    /\ stage = "etl"
    /\ pc = "error"
    /\ Len(input.rows) = 2
    /\ ~isna(RowDatetime(input.rows[1]))
    /\ ~isna(input.rows[2].Fecha) /\ isna(input.rows[2].Hora)
    /\ files["tidy"] = Old

\* ------------------------------------------------------- claims: Validator
TidyShaped == stage = "validate" /\ input.exists /\ Required \subseteq input.columns /\ \A i \in 1..Len(input.rows) : ~isna(input.rows[i].datetime)

\* C9: on an existing artifact with the three columns and parseable
\* datetimes, zero rows included, the Validator raises nothing of its own.
C9_NoErrorOnTidyShapedInput == TidyShaped => pc \notin {"error", "raised"}

\* --------------------------------------------------- claims: artifact writes
Whole(f) == f.kind # "partial"

\* C10: after a run every output artifact is the new output or the previous
\* artifact, whole, and after a failed run every one is the previous artifact.
C10_WritesAllOrNothing ==
    /\ \A a \in DOMAIN files : Whole(files[a])
    /\ pc = "failed" => files = files0

\* ------------------------------------------- claims: Validator run and rerun
\* C11: running the Validator twice in a row on a tidy artifact path gives the
\* same NodeStats output both times, the content of the input artifact after
\* each run equals its content before the run, and the NodeStats file that a
\* run writes is never the input artifact itself
C11_RerunIsIdenticalAndReadOnly ==
    stage = "rerun" /\ work # <<>> =>
        /\ \A k \in 1..Len(work) : work[k] = work[1]
        /\ files[input.path] = files0[input.path]
        /\ work[Len(work)].result = "done" => OutPath(input.path) # input.path

\* ------------------------------------------------------ claims: pipeline run
Finished == pc = "idle" /\ work.steps # <<>>
AllSucceeded == Len(work.steps) = Len(StepNames) /\ \A k \in 1..Len(work.steps) : work.steps[k].returncode = 0
AnyFailed == \E k \in 1..Len(work.steps) : work.steps[k].returncode # 0
Recorded == files[MetaName].body
Before == load_meta(files0[MetaName])

\* C12: within one run the stages are started in the order ETL, clean, sanity,
\* each at most once, a stage only after every earlier stage of the run exited
\* with status 0; nothing is recorded before the run ends; a run whose three
\* stages succeeded records status ok and a new last_run, and a run with a
\* failed stage records status error and leaves last_run as it was
C12_StagesInOrderAndStatusRecorded ==
    stage = "pipeline" =>
        /\ Len(work.steps) <= Len(StepNames)
        /\ \A k \in 1..Len(work.steps) : work.steps[k].name = StepNames[k]
        /\ \A k \in 1..Len(work.steps) : \A j \in 1..(k - 1) : work.steps[j].returncode = 0
        /\ ~Finished => files = files0
        /\ Finished /\ AllSucceeded =>
             Recorded.status = "ok" /\ Recorded.last_run = utcnow /\ Recorded.last_run # Before.last_run
        /\ Finished /\ ~AllSucceeded =>
             AnyFailed /\ Recorded.status = "error" /\ Recorded.last_run = Before.last_run

\* the second stage fails in a run that follows a successful one
C12_Witness ==
    /\ stage = "pipeline"
    /\ Finished
    /\ Len(work.steps) = 2
    /\ work.steps[2].returncode # 0
    /\ Before.status = "ok"
    /\ Recorded.status = "error"
    /\ ~isna(Recorded.last_run)

\* ---------------------------------- claims: normalize_fecha and normalize_hora
First5(s) == SubSeq(s, 1, IF Len(s) < 5 THEN Len(s) ELSE 5)
AfterFirstSpace(s) == SubSeq(s, FirstSpace(s) + 1, Len(s))
BeforeFirstSpace(s) == IF FirstSpace(s) = 0 THEN s ELSE SubSeq(s, 1, FirstSpace(s) - 1)

\* C13: for a non-null cell text s, normalize_hora gives the first 5 characters
\* of s when s has no space and otherwise the first 5 characters of all that
\* follows the first space of s, and normalize_fecha gives what precedes the
\* first space
C13_HoraIsRestAfterFirstSpace ==
    stage = "normalize" /\ pc = "done" =>
        /\ work.hora_str = Text(First5(IF FirstSpace(input[1]) = 0 THEN input[1] ELSE AfterFirstSpace(input[1])))
        /\ work.fecha_str = Text(BeforeFirstSpace(input[1]))

\* ------------------------------------- claims: Sanity Checker on null prices
\* C14: a record whose precio is null has neg_price, hard_outlier and
\* hourly_spike all false, and the record that directly follows a null-precio
\* record in its node's datetime order has hourly_spike false whatever its own
\* precio is.
C14_NullPriceNeverFlagged ==
    Computed => \A k \in 1..Len(work) :
        /\ isna(work[k].precio) => ~work[k].neg_price /\ ~work[k].hard_outlier /\ ~work[k].hourly_spike
        /\ Earlier(input, work[k].idx) # {} /\ isna(input[Preceding(input, work[k].idx)].precio) => ~work[k].hourly_spike

\* the series 10, null, 400 of one node: a jump of 390 across the null record,
\* no hourly_spike
C14_Witness ==
    /\ Computed
    /\ Len(work) = 3
    /\ \A k \in 1..3 : work[k].nodo = "A" /\ work[k].datetime = k
    /\ <<work[1].precio, work[2].precio, work[3].precio>> = <<Num(10), NaN, Num(400)>>
    /\ \A k \in 1..3 : ~work[k].hourly_spike /\ ~work[k].neg_price

====
